---- MODULE Spec2Model ----
(***************************************************************************)
(* Marketplace-PSL storefront: the cart held in App (cartItems and its     *)
(* handlers), the totals derived on the Cart page, and the hand-over of    *)
(* the cart to PayWall / PaymentForm for the order-creation request.       *)
(*                                                                         *)
(* JavaScript values are records [t, n, s]: t is the type tag, n the       *)
(* number (when t = "num"), s the text (when t = "str").  Amounts of money *)
(* are numbers counted in thousandths of a euro, so that 20 % of an amount *)
(* in whole cents is exact.  Quantities are integers.                      *)
(***************************************************************************)
EXTENDS Integers, Sequences, FiniteSets

VARIABLES
    cartItems,  \* App: the lines of the cart
    auth,       \* AuthContext: the session
    location,   \* router: the current path and its navigation state
    form,       \* PaymentForm: how many of its fields are filled
    state,      \* PaymentForm: loading flag and error message
    pending,    \* order requests in flight
    queue,      \* React: the cart updaters queued since the last render
    provider,   \* AuthProvider: localStorage "auth" and the mounting effects
    dashboard,  \* Dashboard: its loading state and the data it fetched
    shop,       \* Shop: its list, its loading state and its fetches in flight
    history,    \* browser: the entries with navigation state behind the current one
    last        \* history: the operation that produced the state

appVars ==
    <<auth, location, form, state, pending, queue, provider, dashboard, shop, history>>

vars ==
    <<cartItems, auth, location, form, state, pending, queue, provider, dashboard,
      shop, history, last>>

-----------------------------------------------------------------------------
(* Bounds of the model *)

\* largest quantity a line is driven to
MaxQty == 2
\* longest list of keys handed to removeMany
MaxIds == 2
\* most order requests in flight at once
MaxPending == 1
\* entries with navigation state kept behind the current one, where the
\* Back button is not specified
MaxHistory == 0

-----------------------------------------------------------------------------
(* JavaScript values and the coercions the handlers use *)

Undef == [t |-> "undef", n |-> 0, s |-> ""]
NaN == [t |-> "nan", n |-> 0, s |-> ""]
Num(k) == [t |-> "num", n |-> k, s |-> ""]
Str(x) == [t |-> "str", n |-> 0, s |-> x]

\* a ?? b
Coalesce(a, b) == IF a.t = "undef" THEN b ELSE a

\* !v
Falsy(v) ==
    \/ v.t \in {"undef", "nan"}
    \/ v.t = "num" /\ v.n = 0
    \/ v.t = "str" /\ v.s = ""

\* a || b
OrElse(a, b) == IF Falsy(a) THEN b ELSE a

\* a === b
StrictEq(a, b) == a.t # "nan" /\ a = b

DigitStr == <<"0", "1", "2", "3", "4", "5", "6", "7", "8", "9">>

RECURSIVE NatToStr(_)
NatToStr(k) ==
    IF k < 10 THEN DigitStr[k + 1]
    ELSE NatToStr(k \div 10) \o DigitStr[(k % 10) + 1]

\* String(v), for the values used as keys (integers, texts, undefined)
JsString(v) ==
    CASE v.t = "num" -> IF v.n < 0 THEN "-" \o NatToStr(0 - v.n) ELSE NatToStr(v.n)
      [] v.t = "str" -> v.s
      [] v.t = "nan" -> "NaN"
      [] OTHER -> "undefined"

\* Number(v) of a price: the decimal literals the catalog uses, in thousandths
ToNumber(v) ==
    CASE v.t = "num" -> v
      [] v.t = "str" /\ v.s = "" -> Num(0)
      [] v.t = "str" /\ v.s = "39.90" -> Num(39900)
      [] v.t = "str" /\ v.s = "5" -> Num(5000)
      [] OTHER -> NaN

\* Number(x.qty || 1) of a stored quantity
QtyOr1(q) == IF q = 0 THEN 1 ELSE q

Max(a, b) == IF a >= b THEN a ELSE b

-----------------------------------------------------------------------------
(* Product descriptors handed to the cart, and the keys handed to it *)

Clavier == [id |-> Num(1), name |-> Str("Clavier"), price |-> Num(89900)]
Souris == [id |-> Str("2"), name |-> Str("Souris"), price |-> Str("abc")]
Widget == [id |-> Undef, name |-> Str("Widget"), price |-> Num(0 - 5000)]

Products == {Clavier, Souris, Widget}

KeyArgs == {Num(1), Str("1"), Num(2), Str("2"), Str("Widget"), Num(0)}

RECURSIVE SeqsUpTo(_, _)
SeqsUpTo(S, k) ==
    IF k = 0 THEN {<<>>}
    ELSE LET shorter == SeqsUpTo(S, k - 1)
         IN shorter \cup {Append(q, x) : q \in shorter, x \in S}

\* keyOf: x.id ?? x.name
keyOf(it) == Coalesce(it.id, it.name)

Keys(items) == {keyOf(items[i]) : i \in DOMAIN items}

-----------------------------------------------------------------------------
(* The handlers of App, as functions from the previous cart to the next *)

\* the filter both changeQty and setQty end with
KeepLine(x) == QtyOr1(x.qty) > 0

changeQtyFn(prev, id, delta) ==
    IF Falsy(id) \/ delta = 0 THEN prev
    ELSE SelectSeq(
           [i \in DOMAIN prev |->
              IF StrictEq(keyOf(prev[i]), id)
              THEN [prev[i] EXCEPT !.qty = Max(0, QtyOr1(@) + delta)]
              ELSE prev[i]],
           KeepLine)

setQtyFn(prev, id, qty) ==
    SelectSeq(
      [i \in DOMAIN prev |->
         IF StrictEq(keyOf(prev[i]), id)
         THEN [prev[i] EXCEPT !.qty = Max(0, qty)]
         ELSE prev[i]],
      KeepLine)

\* removeItem comparing the keys as strings
removeItemLoose(prev, id) ==
    SelectSeq(prev, LAMBDA x : JsString(keyOf(x)) # JsString(id))

removeItemFn(prev, id) ==
    SelectSeq(prev, LAMBDA x : ~StrictEq(keyOf(x), id))

\* removeMany without the String normalisation of either side
removeManyStrict(prev, ids) ==
    SelectSeq(prev, LAMBDA x : \A i \in DOMAIN ids : ~StrictEq(keyOf(x), ids[i]))

\* removeMany dropping only the first listed key
removeManyFirstOnly(prev, ids) ==
    IF Len(ids) = 0 THEN prev
    ELSE SelectSeq(prev, LAMBDA x : JsString(keyOf(x)) # JsString(ids[1]))

removeManyFn(prev, ids) ==
    IF Len(ids) = 0 THEN prev
    ELSE LET setIds == {JsString(ids[i]) : i \in DOMAIN ids}
         IN SelectSeq(prev, LAMBDA x : JsString(keyOf(x)) \notin setIds)

\* handleAdd looking lines up by id alone: a product without id is never found
handleAddByIdOnly(prev, product) ==
    IF \E i \in DOMAIN prev :
          product.id # Undef /\ StrictEq(prev[i].id, product.id)
    THEN [i \in DOMAIN prev |->
            IF StrictEq(prev[i].id, product.id)
            THEN [prev[i] EXCEPT !.qty = QtyOr1(@) + 1]
            ELSE prev[i]]
    ELSE Append(prev, [id |-> product.id,
                       name |-> product.name,
                       price |-> OrElse(ToNumber(product.price), Num(0)),
                       qty |-> 1])

\* handleAdd appending a line without looking for the key
handleAddAlwaysAppend(prev, product) ==
    Append(prev, [id |-> product.id,
                  name |-> product.name,
                  price |-> OrElse(ToNumber(product.price), Num(0)),
                  qty |-> 1])

handleAddFn(prev, product) ==
    LET key == Coalesce(product.id, product.name)
    IN IF \E i \in DOMAIN prev : StrictEq(keyOf(prev[i]), key)
       THEN [i \in DOMAIN prev |->
               IF StrictEq(keyOf(prev[i]), key)
               THEN [prev[i] EXCEPT !.qty = QtyOr1(@) + 1]
               ELSE prev[i]]
       ELSE Append(prev, [id |-> product.id,
                          name |-> product.name,
                          price |-> OrElse(ToNumber(product.price), Num(0)),
                          qty |-> 1])

\* addToCart without its "si qty <= 0 on n'ajoute rien" guard
addToCartUnguarded(prev, item, qty) ==
    LET id == Coalesce(item.id, item.name)
        hits == {i \in DOMAIN prev : StrictEq(keyOf(prev[i]), id)}
    IN IF hits # {}
       THEN LET i == CHOOSE h \in hits : \A g \in hits : h <= g
                nextQty == Max(0, QtyOr1(prev[i].qty) + qty)
            IN IF nextQty = 0
               THEN SubSeq(prev, 1, i - 1) \o SubSeq(prev, i + 1, Len(prev))
               ELSE [prev EXCEPT ![i].qty = nextQty]
       ELSE Append(prev, [id |-> item.id, name |-> item.name,
                          price |-> item.price, qty |-> qty])

addToCartFn(prev, item, qty) ==
    LET id == Coalesce(item.id, item.name)
        hits == {i \in DOMAIN prev : StrictEq(keyOf(prev[i]), id)}
    IN IF hits # {}
       THEN LET i == CHOOSE h \in hits : \A g \in hits : h <= g
                nextQty == Max(0, QtyOr1(prev[i].qty) + qty)
            IN IF nextQty = 0
               THEN SubSeq(prev, 1, i - 1) \o SubSeq(prev, i + 1, Len(prev))
               ELSE [prev EXCEPT ![i].qty = nextQty]
       ELSE IF qty <= 0 THEN prev
            ELSE Append(prev, [id |-> item.id, name |-> item.name,
                               price |-> item.price, qty |-> qty])

\* cartCount of App
cartCount == LET RECURSIVE Sum(_)
                 Sum(s) == IF s = <<>> THEN 0 ELSE QtyOr1(Head(s).qty) + Sum(Tail(s))
             IN Sum(cartItems)

-----------------------------------------------------------------------------
(* Totals of the Cart page *)

\* 20 % of the subtotal
TvaRatePct == 20
\* delivery is free above 100 euros
FreeShippingAbove == 100000
\* and costs 6.90 euros otherwise
ShippingFee == 6900

\* a + b and a * k on numbers: NaN is contagious
JsAdd(a, b) == IF a.t = "num" /\ b.t = "num" THEN Num(a.n + b.n) ELSE NaN
JsTimes(a, k) == IF a.t = "num" THEN Num(a.n * k) ELSE NaN

\* a >= k in the place of a > k
JsGreaterOrEqual(a, k) == a.t = "num" /\ a.n >= k

\* a > k is false when a is NaN
JsGreater(a, k) == a.t = "num" /\ a.n > k

RECURSIVE SumLines(_)
SumLines(lines) ==
    IF lines = <<>> THEN Num(0)
    ELSE JsAdd(JsTimes(Head(lines).price, Head(lines).qty), SumLines(Tail(lines)))

\* computeTotals leaving the delivery fee out of the total
computeTotalsWithoutShipping(items) ==
    LET lines == [i \in DOMAIN items |->
                    [items[i] EXCEPT !.qty = QtyOr1(@),
                                     !.price = ToNumber(OrElse(@, Num(0)))]]
        subtotal == SumLines(lines)
        tva == IF subtotal.t = "num"
               THEN Num((subtotal.n * TvaRatePct) \div 100) ELSE NaN
        shipping == IF JsGreater(subtotal, FreeShippingAbove) THEN Num(0) ELSE Num(ShippingFee)
    IN [lines |-> lines, subtotal |-> subtotal, tva |-> tva,
        shipping |-> shipping, total |-> JsAdd(subtotal, tva)]

computeTotals(items) ==
    LET lines == [i \in DOMAIN items |->
                    [items[i] EXCEPT !.qty = QtyOr1(@),
                                     !.price = ToNumber(OrElse(@, Num(0)))]]
        subtotal == SumLines(lines)
        tva == IF subtotal.t = "num"
               THEN Num((subtotal.n * TvaRatePct) \div 100) ELSE NaN
        shipping == IF JsGreater(subtotal, FreeShippingAbove) THEN Num(0) ELSE Num(ShippingFee)
    IN [lines |-> lines, subtotal |-> subtotal, tva |-> tva,
        shipping |-> shipping, total |-> JsAdd(JsAdd(subtotal, tva), shipping)]

\* computeTotals normalising the lines of its argument in place
itemsNormalisedInPlace(items) ==
    [i \in DOMAIN items |->
       [items[i] EXCEPT !.qty = QtyOr1(@), !.price = ToNumber(OrElse(@, Num(0)))]]

\* the argument of computeTotals after the call: items.map builds new
\* objects ({ ...it, qty, price }), the items themselves are not written
itemsAfterComputeTotals(items) == items

\* totalCount of the Cart page, over the normalised lines
totalCount ==
    LET RECURSIVE Count(_)
        Count(s) == IF s = <<>> THEN 0 ELSE QtyOr1(Head(s).qty) + Count(Tail(s))
    IN Count(computeTotals(cartItems).lines)

-----------------------------------------------------------------------------
(* The operations *)

QtyBounded(items) == \A i \in DOMAIN items : items[i].qty <= MaxQty

Did(op, ids, next) ==
    last' = [op |-> op, ids |-> ids, removed |-> Max(0, Len(cartItems) - Len(next))]

\* the handlers of the cart touch nothing but cartItems
CartOnly(op, ids) ==
    /\ Did(op, ids, cartItems')
    /\ UNCHANGED appVars

\* sessions: AuthPanel stores { token, user } as the API returned them
\* raison_soc, a text kept as its characters, or undefined
RaisonSoc(chars) == [t |-> "str", chars |-> chars]
NoRaisonSoc == [t |-> "undef", chars |-> <<>>]
Particulier == RaisonSoc(<<"P", "a", "r", "t", "i", "c", "u", "l", "i", "e", "r">>)

KnownUser == [token |-> Str("u_3"), id |-> Num(3), raison_soc |-> Particulier]
NoIdUser == [token |-> Str("jwt"), id |-> Undef, raison_soc |-> NoRaisonSoc]
Users == {KnownUser, NoIdUser}

\* AuthContext without a session: auth is null, auth?.token and
\* auth?.user?.id undefined
NoAuth == [token |-> Undef, id |-> Undef, raison_soc |-> NoRaisonSoc]

-----------------------------------------------------------------------------
(* AuthProvider: the session kept in localStorage under "auth" *)

\* what localStorage.getItem("auth") returns: null, a JSON text, or a text
\* that JSON.parse rejects
Absent == [kind |-> "absent", value |-> NoAuth]
Corrupt == [kind |-> "corrupt", value |-> NoAuth]

\* JSON.stringify: NaN is written as null, which reads back as no value
jsonValue(v) == IF v.t = "nan" THEN Undef ELSE v

stringify(a) ==
    [kind |-> "json",
     value |-> [a EXCEPT !.token = jsonValue(@), !.id = jsonValue(@)]]

\* the persisting effect never removing the key
persistedNeverRemoved(a, stored) == IF a # NoAuth THEN stringify(a) ELSE stored

\* the persisting effect: setItem(JSON.stringify(auth)) if auth, else removeItem
persisted(a, stored) == IF a # NoAuth THEN stringify(a) ELSE Absent

\* the provider at rest: every effect has run for the current auth
Settled(a) == [storage |-> persisted(a, Absent), pc |-> "settled", queued |-> NoAuth]

-----------------------------------------------------------------------------
(* The routes of App: which page a path shows to a session *)

\* toLowerCase, on the letters a raison_soc or a product name is written with
LowerOf(c) ==
    CASE c = "P" -> "p" [] c = "R" -> "r" [] c = "O" -> "o" [] c = "F" -> "f"
      [] c = "E" -> "e" [] c = "S" -> "s" [] c = "I" -> "i" [] c = "N" -> "n"
      [] c = "L" -> "l" [] c = "C" -> "c" [] OTHER -> c

toLowerCase(chars) == [i \in DOMAIN chars |-> LowerOf(chars[i])]

startsWith(chars, prefix) ==
    /\ Len(chars) >= Len(prefix)
    /\ SubSeq(chars, 1, Len(prefix)) = prefix

\* isPro: typeof raisonSoc === "string" &&
\*        raisonSoc.toLowerCase().startsWith("profession")
isPro(a) ==
    /\ a.raison_soc.t = "str"
    /\ startsWith(toLowerCase(a.raison_soc.chars),
                  <<"p", "r", "o", "f", "e", "s", "s", "i", "o", "n">>)

\* what a route element comes to: a page shown, or a <Navigate> to a path
Page(name) == [page |-> name, to |-> ""]
Redirect(path) == [page |-> "", to |-> path]

\* RequireAuth letting everyone in
RequireAuthOpen(a, name) == Page(name)

RequireAuth(a, name) == IF Falsy(a.token) THEN Redirect("/") ELSE Page(name)

PublicOnly(a, name) == IF ~Falsy(a.token) THEN Redirect("/home") ELSE Page(name)

\* <Routes>: the element of the route that matches path
routeElement(path, a) ==
    IF path = "/" THEN PublicOnly(a, "Auth")
    ELSE IF isPro(a)
    THEN CASE path = "/home" -> RequireAuth(a, "Dashboard")
           [] path = "/catalogue" -> RequireAuth(a, "Catalog")
           [] path = "/performances" -> RequireAuth(a, "Performances")
           [] OTHER -> Redirect("/")
    ELSE CASE path = "/home" -> RequireAuth(a, "Home")
           [] path = "/produits" -> RequireAuth(a, "Shop")
           [] path = "/panier" -> RequireAuth(a, "Cart")
           [] path = "/paywall" -> RequireAuth(a, "PayWall")
           [] OTHER -> Redirect("/")

\* the path the router ends at, once every <Navigate> is followed
RECURSIVE settle(_, _)
settle(path, a) ==
    LET el == routeElement(path, a)
    IN IF el.page # "" THEN path ELSE settle(el.to, a)

\* the page the current location shows ("" while a <Navigate> is rendered)
shown(path, a) == routeElement(path, a).page

\* useState initial value of Dashboard
NoData == [loading |-> TRUE, error |-> "", data |-> <<>>]

\* Shop while no Shop is mounted: its useState initial values, no fetch
Unmounted ==
    [mounted |-> FALSE, q |-> <<>>, items |-> <<>>, loading |-> TRUE, error |-> "",
     fetches |-> <<>>]

\* useState initial values of PaymentForm
NoFields == 0
Idle == [loading |-> FALSE, error |-> ""]

At(path, navState) == [pathname |-> path, state |-> navState]

InitApp ==
    /\ cartItems = <<>>
    /\ auth \in Users
    /\ location = At("/home", Undef)
    /\ form = NoFields
    /\ state = Idle
    /\ pending = <<>>
    /\ queue = <<>>
    /\ provider = Settled(auth)
    /\ dashboard = NoData
    /\ shop = Unmounted
    /\ history = <<>>
    /\ last = [op |-> "init", ids |-> <<>>, removed |-> 0]

Init == InitApp /\ auth = KnownUser

AddToCart(item, qty) ==
    /\ cartItems' = addToCartFn(cartItems, item, qty)
    /\ QtyBounded(cartItems')
    /\ CartOnly("addToCart", <<>>)

HandleAdd(product) ==
    /\ cartItems' = handleAddFn(cartItems, product)
    /\ QtyBounded(cartItems')
    /\ CartOnly("handleAdd", <<>>)

ChangeQty(id, delta) ==
    /\ cartItems' = changeQtyFn(cartItems, id, delta)
    /\ QtyBounded(cartItems')
    /\ CartOnly("changeQty", <<>>)

SetQty(id, qty) ==
    /\ cartItems' = setQtyFn(cartItems, id, qty)
    /\ CartOnly("setQty", <<>>)

RemoveItem(id) ==
    /\ cartItems' = removeItemFn(cartItems, id)
    /\ CartOnly("removeItem", <<>>)

RemoveMany(ids) ==
    /\ cartItems' = removeManyFn(cartItems, ids)
    /\ CartOnly("removeMany", ids)

ClearCart ==
    /\ cartItems' = <<>>
    /\ CartOnly("clearCart", <<>>)

Next ==
    \/ \E p \in Products, q \in (0 - MaxQty)..MaxQty : AddToCart(p, q)
    \/ \E p \in Products : HandleAdd(p)
    \/ \E k \in KeyArgs, d \in (0 - MaxQty)..MaxQty : ChangeQty(k, d)
    \/ \E k \in KeyArgs, q \in (0 - 1)..MaxQty : SetQty(k, q)
    \/ \E k \in KeyArgs : RemoveItem(k)
    \/ \E ids \in SeqsUpTo(KeyArgs, MaxIds) : RemoveMany(ids)
    \/ ClearCart

Spec == Init /\ [][Next]_vars

-----------------------------------------------------------------------------
(* The application: Shop, Cart, PayWall and PaymentForm around the cart *)

\* the four fields of PaymentForm
FormFields == 4

\* what the order API may answer to a request
Responses ==
    {[fetched |-> FALSE, httpOk |-> FALSE, body |-> "none"],
     [fetched |-> TRUE, httpOk |-> FALSE, body |-> "none"],
     [fetched |-> TRUE, httpOk |-> TRUE, body |-> "invalid"],
     [fetched |-> TRUE, httpOk |-> TRUE, body |-> "ok_false"],
     [fetched |-> TRUE, httpOk |-> TRUE, body |-> "ok_true"]}

\* the rows listProducts returns
ShopCatalog == {Clavier, Souris}

\* Shop: the row of the API as the product handed to onAdd
ShopProduct(p) ==
    [id |-> p.id,
     name |-> Coalesce(p.name, Str("Produit")),
     price |-> ToNumber(Coalesce(p.price, Num(0)))]

\* PayWall: location.state?.items ?? [] and location.state?.total ?? 0
payItems == IF location.state = Undef THEN <<>> ELSE location.state.items
payTotal == IF location.state = Undef THEN Num(0) ELSE location.state.total
userId == auth.id

\* PaymentForm leaves the page: its state is gone and its requests are orphans
Orphaned(reqs) == [i \in DOMAIN reqs |-> [reqs[i] EXCEPT !.alive = FALSE]]

Leave(reqs) ==
    /\ form' = NoFields
    /\ state' = Idle
    /\ pending' = IF location.pathname = "/paywall" THEN Orphaned(reqs) ELSE reqs

Note(op) == last' = [op |-> op, ids |-> <<>>, removed |-> 0]

\* history.pushState: the entries with navigation state behind the new
\* entry, the newest first, at most kept of them
leaving(kept) ==
    IF location.state = Undef THEN history
    ELSE SubSeq(<<location>> \o history, 1, kept)

\* Navbar and page links: a push of the history
Link(to, kept) ==
    /\ ~Falsy(auth.token)
    /\ settle(to, auth) # location.pathname
    /\ location' = At(settle(to, auth), Undef)
    /\ history' = leaving(kept)
    /\ Leave(pending)
    /\ Note("navigate")
    /\ UNCHANGED <<cartItems, auth, queue, provider, dashboard, shop>>

Navigate(to) == Link(to, MaxHistory)

\* Shop: the "add to cart" button of a product card
ShopAdd(p) ==
    /\ shown(location.pathname, auth) = "Shop"
    /\ HandleAdd(ShopProduct(p))

\* Cart: the + button of a line
CartIncrement(i) ==
    /\ shown(location.pathname, auth) = "Cart"
    /\ i \in DOMAIN cartItems
    /\ ChangeQty(keyOf(cartItems[i]), 1)

\* a - button that is never disabled
decrementNeverDisabled(it) == FALSE

\* the - button of a line: disabled={Number(it.qty || 1) <= 1}
decrementDisabled(it) == QtyOr1(it.qty) <= 1

\* Cart: the - button of a line
CartDecrement(i) ==
    /\ shown(location.pathname, auth) = "Cart"
    /\ i \in DOMAIN cartItems
    /\ ~decrementDisabled(cartItems[i])
    /\ ChangeQty(keyOf(cartItems[i]), 0 - 1)

\* Cart: the delete button of a line
CartDelete(i) ==
    /\ shown(location.pathname, auth) = "Cart"
    /\ i \in DOMAIN cartItems
    /\ RemoveItem(keyOf(cartItems[i]))

\* Cart: "Commander"; PayWall sends back to /panier a visit without a cart
HandlePlaceOrder ==
    /\ shown(location.pathname, auth) = "Cart"
    /\ Len(cartItems) > 0
    /\ LET t == computeTotals(cartItems)
       IN location' =
            IF Falsy(auth.id) THEN At(settle("/auth", auth), Undef)
            ELSE IF Len(t.lines) = 0 \/ Falsy(t.total) THEN At("/panier", Undef)
            ELSE At("/paywall", [items |-> t.lines, total |-> t.total])
    /\ Leave(pending)
    /\ Note("placeOrder")
    /\ UNCHANGED <<cartItems, auth, queue, provider, dashboard, shop, history>>

\* PaymentForm: typing in a field (fill) or emptying one
HandleChange(fill) ==
    /\ shown(location.pathname, auth) = "PayWall"
    /\ form' = IF fill THEN form + 1 ELSE form - 1
    /\ form' \in 0..FormFields
    /\ Note("change")
    /\ UNCHANGED <<cartItems, auth, location, state, pending, queue, provider, dashboard, shop, history>>

\* the lines of the order request, each with the quantity 1
orderLinesUnitQty(items) ==
    [i \in DOMAIN items |->
       [id |-> items[i].id, qty |-> 1, price |-> items[i].price]]

\* the lines of the order request
orderLines(items) ==
    [i \in DOMAIN items |->
       [id |-> items[i].id, qty |-> items[i].qty, price |-> items[i].price]]

\* the guards of handleSubmit looking at the typed fields only
submitErrorFieldsOnly(f, uid, items, total) ==
    IF f < FormFields THEN "Tous les champs de paiement sont obligatoires." ELSE ""

\* the guards of handleSubmit: the message of the first that fails, "" if none
submitError(f, uid, items, total) ==
    IF f < FormFields THEN "Tous les champs de paiement sont obligatoires."
    ELSE IF Falsy(uid) THEN "Utilisateur non identifie : veuillez vous reconnecter."
    ELSE IF Len(items) = 0 \/ Falsy(total) THEN "Panier vide ou total invalide."
    ELSE ""

\* a submit button that is never disabled
submitNeverDisabled(st) == FALSE

\* the submit button: disabled={state.loading}
submitDisabled(st) == st.loading

\* PaymentForm: submit, up to the fetch; cap bounds the requests in flight
Submit(cap) ==
    /\ shown(location.pathname, auth) = "PayWall"
    /\ ~submitDisabled(state)
    /\ LET err == submitError(form, userId, payItems, payTotal)
       IN IF err # ""
          THEN /\ state' = [loading |-> FALSE, error |-> err]
               /\ UNCHANGED pending
          ELSE /\ Len(pending) < cap
               /\ state' = [loading |-> TRUE, error |-> ""]
               /\ pending' = Append(pending,
                    [payload |-> [user_id |-> userId,
                                  lines |-> orderLines(payItems),
                                  total |-> payTotal],
                     alive |-> TRUE])
    /\ Note("submit")
    /\ UNCHANGED <<cartItems, auth, location, form, queue, provider, dashboard, shop, history>>

HandleSubmit == Submit(MaxPending)

\* handleSubmit after the fetch, ignoring data.ok
orderErrorTrustingStatus(res) ==
    IF ~res.fetched THEN "Failed to fetch"
    ELSE IF ~res.httpOk THEN "HTTP 500"
    ELSE IF res.body = "invalid" THEN "Unexpected token"
    ELSE ""

\* handleSubmit after the fetch: the message of the error thrown, "" if none
orderError(res) ==
    IF ~res.fetched THEN "Failed to fetch"
    ELSE IF ~res.httpOk THEN "HTTP 500"
    ELSE IF res.body = "invalid" THEN "Unexpected token"
    ELSE IF res.body # "ok_true" THEN "Echec de la commande"
    ELSE ""

\* the catch block leaving the form in its loading state
catchStateStillLoading(msg) == [loading |-> TRUE, error |-> msg]

\* the catch block of handleSubmit: err?.message || the default message
catchState(msg) ==
    [loading |-> FALSE,
     error |-> IF msg = "" THEN "Erreur pendant le paiement / la commande" ELSE msg]

\* PayWall.handlePaymentSuccess without its onOrderCompleted prop
cartAfterPaymentNoCallback(items) == items

\* PayWall.handlePaymentSuccess: onOrderCompleted is App.clearCart
cartAfterPayment(items) == <<>>

Without(reqs, i) == SubSeq(reqs, 1, i - 1) \o SubSeq(reqs, i + 1, Len(reqs))

\* the answer to request i arrives: the rest of handleSubmit
ReceiveResponse(i, res) ==
    /\ i \in DOMAIN pending
    /\ LET err == orderError(res)
           rest == Without(pending, i)
       IN IF err = ""
          THEN /\ cartItems' = cartAfterPayment(cartItems)
               /\ location' = At(settle("/home", auth), Undef)
               /\ Leave(rest)
               /\ Did("orderPaid", <<>>, cartItems')
          ELSE /\ state' = IF pending[i].alive THEN catchState(err) ELSE state
               /\ pending' = rest
               /\ Note("orderFailed")
               /\ UNCHANGED <<cartItems, location, form>>
    /\ UNCHANGED <<auth, queue, provider, dashboard, shop, history>>

NextApp ==
    \/ \E to \in {"/home", "/produits", "/panier"} : Navigate(to)
    \/ \E p \in ShopCatalog : ShopAdd(p)
    \/ \E i \in 1..Cardinality(ShopCatalog) : CartIncrement(i)
    \/ \E i \in 1..Cardinality(ShopCatalog) : CartDecrement(i)
    \/ \E i \in 1..Cardinality(ShopCatalog) : CartDelete(i)
    \/ HandlePlaceOrder
    \/ \E fill \in BOOLEAN : HandleChange(fill)
    \/ HandleSubmit
    \/ \E i \in 1..MaxPending, res \in Responses : ReceiveResponse(i, res)

SpecApp == InitApp /\ [][NextApp]_vars

-----------------------------------------------------------------------------
(* Payments: the application with room for the request of an abandoned visit
   of the paywall next to the request of the current one *)

\* most order requests in flight, the orphans of earlier visits included
MaxInFlight == 2

NextPay ==
    \/ \E to \in {"/home", "/produits", "/panier"} : Navigate(to)
    \/ \E p \in ShopCatalog : ShopAdd(p)
    \/ \E i \in 1..Cardinality(ShopCatalog) : CartDelete(i)
    \/ HandlePlaceOrder
    \/ \E fill \in BOOLEAN : HandleChange(fill)
    \/ Submit(MaxInFlight)
    \/ \E i \in 1..MaxInFlight, res \in Responses : ReceiveResponse(i, res)

SpecPay == Init /\ [][NextPay]_vars

-----------------------------------------------------------------------------
(* The Back button: the application with the history entries that carry a
   navigation state, which the browser hands back with the entry *)

\* entries with navigation state kept behind the current one
MaxBack == 1

\* popstate: the entry behind the current one is shown again, with its state
HistoryBack ==
    /\ history # <<>>
    /\ LET entry == Head(history)
           to == settle(entry.pathname, auth)
       IN location' = IF to = entry.pathname THEN entry ELSE At(to, Undef)
    /\ history' = Tail(history)
    /\ Leave(pending)
    /\ Note("historyBack")
    /\ UNCHANGED <<cartItems, auth, queue, provider, dashboard, shop>>

NextHistory ==
    \/ \E to \in {"/home", "/produits", "/panier"} : Link(to, MaxBack)
    \/ \E p \in ShopCatalog : ShopAdd(p)
    \/ \E i \in 1..Cardinality(ShopCatalog) : CartIncrement(i)
    \/ \E i \in 1..Cardinality(ShopCatalog) : CartDecrement(i)
    \/ \E i \in 1..Cardinality(ShopCatalog) : CartDelete(i)
    \/ HandlePlaceOrder
    \/ \E fill \in BOOLEAN : HandleChange(fill)
    \/ HandleSubmit
    \/ \E i \in 1..MaxPending, res \in Responses : ReceiveResponse(i, res)
    \/ HistoryBack

SpecHistory == Init /\ [][NextHistory]_vars

-----------------------------------------------------------------------------
(* Sessions: logging out and in again without reloading the page.  App, and
   with it cartItems, stays mounted; only AuthContext changes *)

\* Navbar.handleAuthClick of a signed-in user: logout(), then navigate("/")
Logout ==
    /\ provider.pc = "settled"
    /\ ~Falsy(auth.token)
    /\ auth' = NoAuth
    /\ location' = At(settle("/", NoAuth), Undef)
    /\ Leave(pending)
    /\ provider' = Settled(auth')
    /\ Note("logout")
    /\ UNCHANGED <<cartItems, queue, dashboard, shop, history>>

\* AuthPanel: login or registration accepted: setAuth, then navigate("/home")
Login(u) ==
    /\ provider.pc = "settled"
    /\ shown(location.pathname, auth) = "Auth"
    /\ auth' = u
    /\ location' = At(settle("/home", u), Undef)
    /\ provider' = Settled(auth')
    /\ Note("login")
    /\ UNCHANGED <<cartItems, form, state, pending, queue, dashboard, shop, history>>

NextSession ==
    \/ NextApp
    \/ Logout
    \/ \E u \in Users : Login(u)

SpecSession == InitApp /\ [][NextSession]_vars

-----------------------------------------------------------------------------
(* Routes and roles: sessions of every kind, and paths reached through the
   address held by the history or by a link *)

Professionnel ==
    RaisonSoc(<<"P", "R", "O", "F", "E", "S", "S", "I", "O", "N", "N", "E", "L">>)

\* a professional account, and a login answer that carries no token
ProUser == [token |-> Str("u_8"), id |-> Num(8), raison_soc |-> Professionnel]
TokenlessUser == [token |-> Undef, id |-> Num(5), raison_soc |-> Particulier]
AllUsers == Users \cup {ProUser, TokenlessUser}

RoutePaths ==
    {"/", "/home", "/produits", "/panier", "/paywall", "/catalogue",
     "/performances", "/auth"}

\* the router is given a path; PayWall reached without navigation state
\* sends on to /panier (and from there wherever the routes lead)
Visit(path) ==
    /\ LET to == settle(path, auth)
       IN location' = At(IF to = "/paywall" THEN settle("/panier", auth) ELSE to, Undef)
    /\ history' = leaving(MaxHistory)
    /\ Leave(pending)
    /\ Note("visit")
    /\ UNCHANGED <<cartItems, auth, queue, provider, dashboard, shop>>

InitRoutes ==
    /\ cartItems = <<>>
    /\ auth \in AllUsers \cup {NoAuth}
    /\ location = At(settle("/", auth), Undef)
    /\ form = NoFields
    /\ state = Idle
    /\ pending = <<>>
    /\ queue = <<>>
    /\ provider = Settled(auth)
    /\ dashboard = NoData
    /\ shop = Unmounted
    /\ history = <<>>
    /\ last = [op |-> "init", ids |-> <<>>, removed |-> 0]

NextRoutes ==
    \/ NextApp
    \/ Logout
    \/ \E u \in AllUsers : Login(u)
    \/ \E path \in RoutePaths : Visit(path)

SpecRoutes == InitRoutes /\ [][NextRoutes]_vars

-----------------------------------------------------------------------------
(* Page loads: App and AuthProvider mount again.  AuthProvider starts with
   auth = null; on mount its first effect reads localStorage and calls
   setAuth with what it parsed, its second effect persists the auth of that
   render; the render that follows a setAuth persists the restored auth *)

StoredSamples ==
    {Absent, Corrupt, stringify(NoAuth)} \cup {stringify(u) : u \in AllUsers}

\* the page is loaded: every useState starts over, localStorage stays
Loaded(stored) ==
    /\ cartItems' = <<>>
    /\ auth' = NoAuth
    /\ form' = NoFields
    /\ state' = Idle
    /\ pending' = <<>>
    /\ queue' = <<>>
    /\ dashboard' = NoData
    /\ shop' = Unmounted
    /\ UNCHANGED history
    /\ provider' = [storage |-> stored, pc |-> "mounted", queued |-> NoAuth]
    /\ last' = [op |-> "reload", ids |-> <<>>, removed |-> 0, stored |-> stored]

Reload ==
    /\ Loaded(provider.storage)
    /\ location' = At(settle(location.pathname, NoAuth), Undef)

\* the two effects of the mount, in their order, with auth still null
MountEffects ==
    /\ provider.pc = "mounted"
    /\ LET raw == provider.storage
           parsed == raw.kind = "json"
           rerender == parsed /\ raw.value # auth
       IN /\ provider' = [storage |-> persisted(auth, raw),
                          pc |-> IF rerender THEN "rerender" ELSE "settled",
                          queued |-> IF parsed THEN raw.value ELSE NoAuth]
          /\ last' = [op |-> IF rerender THEN "mountEffects" ELSE "restored",
                      ids |-> <<>>, removed |-> 0, stored |-> last.stored]
    /\ UNCHANGED <<cartItems, auth, location, form, state, pending, queue, dashboard, shop, history>>

\* the render after setAuth(parsed), and the persisting effect after it
RenderRestored ==
    /\ provider.pc = "rerender"
    /\ auth' = provider.queued
    /\ provider' = [storage |-> persisted(auth', provider.storage),
                    pc |-> "settled", queued |-> NoAuth]
    /\ location' = At(settle(location.pathname, auth'), Undef)
    /\ last' = [op |-> "restored", ids |-> <<>>, removed |-> 0, stored |-> last.stored]
    /\ UNCHANGED <<cartItems, form, state, pending, queue, dashboard, shop, history>>

InitAuth ==
    /\ cartItems = <<>>
    /\ auth = NoAuth
    /\ location = At("/", Undef)
    /\ form = NoFields
    /\ state = Idle
    /\ pending = <<>>
    /\ queue = <<>>
    /\ dashboard = NoData
    /\ shop = Unmounted
    /\ history = <<>>
    /\ \E stored \in StoredSamples :
          /\ provider = [storage |-> stored, pc |-> "mounted", queued |-> NoAuth]
          /\ last = [op |-> "load", ids |-> <<>>, removed |-> 0, stored |-> stored]

NextAuth ==
    \/ NextApp
    \/ Logout
    \/ \E u \in AllUsers : Login(u)
    \/ Reload
    \/ MountEffects
    \/ RenderRestored

SpecAuth == InitAuth /\ [][NextAuth]_vars

-----------------------------------------------------------------------------
(* Dashboard: the month's revenue and average cart of a seller.  An amount
   of the API is a number or a text; numbers are exact fractions num / den
   of the unit they are read in *)

\* most orders in the data of one fetch
MaxOrders == 2

Frac(num, den) == [num |-> num, den |-> den]
Zero == Frac(0, 1)

\* a + b, a / k and Number.isInteger(a)
FracAdd(a, b) == Frac(a.num * b.den + b.num * a.den, a.den * b.den)
FracDiv(a, k) == Frac(a.num, a.den * k)
FracIsInteger(a) == a.num % a.den = 0

\* amounts as the API sends them: null, a number, a numeric text with or
\* without a decimal separator, a text that is not a number, the empty text
AmountNull == [t |-> "null", v |-> Zero, sep |-> FALSE]
AmountNum(num, den) == [t |-> "num", v |-> Frac(num, den), sep |-> FALSE]
AmountStr(num, den, sep) == [t |-> "str", v |-> Frac(num, den), sep |-> sep]
AmountText == [t |-> "text", v |-> Zero, sep |-> FALSE]
AmountEmpty == [t |-> "empty", v |-> Zero, sep |-> FALSE]

\* normalizeMoney: an integer is cents, anything else is euros
normalizeMoney(amount) ==
    IF amount.t = "null" THEN Zero
    ELSE IF amount.t = "empty" THEN Zero
    ELSE IF amount.t = "text" THEN Zero
    ELSE IF amount.t = "str" /\ amount.sep THEN amount.v
    ELSE IF FracIsInteger(amount.v) THEN FracDiv(amount.v, 100)
    ELSE amount.v

\* toLocaleString("fr-FR", currency): the amount rounded to whole cents
toLocaleCents(a) == (2 * 100 * a.num + a.den) \div (2 * a.den)

\* eur(amount): the cents displayed
eur(amount) == toLocaleCents(normalizeMoney(amount))

\* computed.orders: o.total ?? o.commande_total ?? 0 normalised, the orders
\* without a date dropped
dashboardOrders(ordersRaw) ==
    LET norm == [i \in DOMAIN ordersRaw |->
                   [date |-> ordersRaw[i].date,
                    total |-> normalizeMoney(IF ordersRaw[i].total.t = "null"
                                             THEN AmountNum(0, 1)
                                             ELSE ordersRaw[i].total)]]
    IN SelectSeq(norm, LAMBDA o : o.date # "")

ordersMonth(orders) == SelectSeq(orders, LAMBDA o : o.date = "month")

RECURSIVE sumTotals(_)
sumTotals(orders) ==
    IF orders = <<>> THEN Zero
    ELSE FracAdd(sumTotals(Tail(orders)), Head(orders).total)

\* computed.revenueMonth and computed.avgCartMonth
revenueMonth(data) == sumTotals(ordersMonth(dashboardOrders(data)))
avgCartMonth(data) ==
    LET n == Len(ordersMonth(dashboardOrders(data)))
    IN IF n > 0 THEN FracDiv(revenueMonth(data), n) ELSE Zero

TotalSamples ==
    {AmountNum(10000, 1), AmountNum(22140, 1), AmountNum(2204, 10),
     AmountStr(2204, 10, TRUE), AmountStr(15000, 1, FALSE), AmountNull}

OrderSamples ==
    {[date |-> d, total |-> t] : d \in {"month", "earlier"}, t \in TotalSamples}
        \cup {[date |-> "", total |-> AmountNum(10000, 1)]}

\* fetchPerformance answers: setState({ loading: false, error: "", data })
PerformanceLoaded(data) ==
    /\ shown(location.pathname, auth) = "Dashboard"
    /\ dashboard.loading
    /\ dashboard' = [loading |-> FALSE, error |-> "", data |-> data]
    /\ Note("performance")
    /\ UNCHANGED <<cartItems, auth, location, form, state, pending, queue, provider, shop, history>>

\* fetchPerformance throws
PerformanceFailed ==
    /\ shown(location.pathname, auth) = "Dashboard"
    /\ dashboard.loading
    /\ dashboard' = [loading |-> FALSE, error |-> "Erreur de chargement", data |-> <<>>]
    /\ Note("performanceFailed")
    /\ UNCHANGED <<cartItems, auth, location, form, state, pending, queue, provider, shop, history>>

\* the render of the loaded data: the two amounts of the month as displayed
RenderDashboard ==
    /\ shown(location.pathname, auth) = "Dashboard"
    /\ ~dashboard.loading
    /\ dashboard.error = ""
    /\ last' = [op |-> "renderDashboard", ids |-> <<>>, removed |-> 0,
                revenue |-> eur(AmountNum(revenueMonth(dashboard.data).num,
                                          revenueMonth(dashboard.data).den)),
                avgCart |-> eur(AmountNum(avgCartMonth(dashboard.data).num,
                                          avgCartMonth(dashboard.data).den))]
    /\ UNCHANGED <<cartItems, appVars>>

InitDashboard ==
    /\ cartItems = <<>>
    /\ auth = ProUser
    /\ location = At("/home", Undef)
    /\ form = NoFields
    /\ state = Idle
    /\ pending = <<>>
    /\ queue = <<>>
    /\ provider = Settled(auth)
    /\ dashboard = NoData
    /\ shop = Unmounted
    /\ history = <<>>
    /\ last = [op |-> "init", ids |-> <<>>, removed |-> 0]

NextDashboard ==
    \/ \E data \in SeqsUpTo(OrderSamples, MaxOrders) : PerformanceLoaded(data)
    \/ PerformanceFailed
    \/ RenderDashboard

SpecDashboard == InitDashboard /\ [][NextDashboard]_vars

-----------------------------------------------------------------------------
(* Shop: the list of products, fetched again by the effect of each query
   (?q= of the address).  Each run of the effect has its own alive flag,
   which its cleanup clears; the answers arrive in any order *)

\* most fetches of the Shop in flight at once
MaxFetches == 2

\* rows of listProducts, their names kept as characters
RowClavier == [id |-> Num(1), name |-> <<"C", "l", "a", "v", "i", "e", "r">>]
RowSouris == [id |-> Str("2"), name |-> <<"S", "o", "u", "r", "i", "s">>]
ListSamples == {<<RowClavier, RowSouris>>, <<RowSouris>>, <<>>}

\* q: (useQuery().get("q") || "").toLowerCase()
QuerySamples == {<<>>, <<"c", "l">>, <<"i">>}

\* s.includes(q)
includes(chars, q) ==
    \E i \in 1..(Len(chars) - Len(q) + 1) : SubSeq(chars, i, i + Len(q) - 1) = q

\* visible: norm filtered by q, all of norm when q is empty
visibleFor(rows, q) ==
    IF q = <<>> THEN rows
    ELSE SelectSeq(rows, LAMBDA x : includes(toLowerCase(x.name), q))

\* a cleanup that leaves the flags as they are
cleanupKeepingAlive(fetches) == fetches

\* the cleanup of the effect: alive = false for the fetch that run started
cleanup(fetches) == [i \in DOMAIN fetches |-> [fetches[i] EXCEPT !.alive = FALSE]]

\* the effect up to its await: setState({ loading: true, error: "" }), fetch
effectOf(s, q) ==
    [s EXCEPT !.mounted = TRUE, !.q = q, !.loading = TRUE, !.error = "",
              !.fetches = Append(cleanup(s.fetches), [q |-> q, alive |-> TRUE])]

\* /produits?q= is opened: Shop mounts and its effect runs
ShopMount(q) ==
    /\ ~Falsy(auth.token)
    /\ ~shop.mounted
    /\ Len(shop.fetches) < MaxFetches
    /\ shop' = effectOf(shop, q)
    /\ location' = At(settle("/produits", auth), Undef)
    /\ Leave(pending)
    /\ Note("shopMount")
    /\ UNCHANGED <<cartItems, auth, queue, provider, dashboard, history>>

\* the query of the address changes: cleanup of the last run, then the effect
ShopQuery(q) ==
    /\ shop.mounted
    /\ q # shop.q
    /\ Len(shop.fetches) < MaxFetches
    /\ shop' = effectOf(shop, q)
    /\ Note("shopQuery")
    /\ UNCHANGED <<cartItems, auth, location, form, state, pending, queue, provider, dashboard, history>>

\* Shop is left: its state is gone, the cleanup of the last run has run
ShopUnmount ==
    /\ shop.mounted
    /\ shop' = [Unmounted EXCEPT !.fetches = cleanup(shop.fetches)]
    /\ location' = At(settle("/home", auth), Undef)
    /\ Note("shopUnmount")
    /\ UNCHANGED <<cartItems, auth, form, state, pending, queue, provider, dashboard, history>>

\* listProducts of fetch i answers with rows, or throws
ShopResponse(i, ok, rows) ==
    /\ i \in DOMAIN shop.fetches
    /\ LET f == shop.fetches[i]
           rest == Without(shop.fetches, i)
       IN /\ shop' =
               IF ~f.alive THEN [shop EXCEPT !.fetches = rest]
               ELSE IF ok
               THEN [shop EXCEPT !.items = visibleFor(rows, f.q), !.loading = FALSE,
                                 !.error = "", !.fetches = rest]
               ELSE [shop EXCEPT !.loading = FALSE, !.error = "Erreur de chargement",
                                 !.fetches = rest]
          /\ last' = [op |-> IF ok THEN "shopLoaded" ELSE "shopFailed", ids |-> <<>>,
                      removed |-> 0, fetch |-> f, rows |-> rows]
    /\ UNCHANGED <<cartItems, auth, location, form, state, pending, queue, provider, dashboard, history>>

NextShop ==
    \/ \E q \in QuerySamples : ShopMount(q)
    \/ \E q \in QuerySamples : ShopQuery(q)
    \/ ShopUnmount
    \/ \E i \in 1..MaxFetches, rows \in ListSamples : ShopResponse(i, TRUE, rows)
    \/ \E i \in 1..MaxFetches : ShopResponse(i, FALSE, <<>>)

SpecShop == Init /\ [][NextShop]_vars

-----------------------------------------------------------------------------
(* The Cart page deriving its totals: carts drawn around the delivery
   threshold, rendered (computeTotals) and changed with the +/- buttons *)

\* renders of the Cart page followed without a change of the cart
MaxCalls == 2

\* unit prices: 25.00, 50.00, 100.00 and 100.01 as numbers, 39.90 as the
\* text a raw API row carries
PriceSamples == {Num(25000), Num(50000), Num(100000), Num(100010), Str("39.90")}

SampleLine(k, price, qty) ==
    [id |-> Num(k), name |-> Str("Article"), price |-> price, qty |-> qty]

SampleCarts ==
    {<<>>}
    \cup {<<SampleLine(1, p, q)>> : p \in PriceSamples, q \in 1..MaxQty}
    \cup {<<SampleLine(1, p, q), SampleLine(2, r, n)>> :
             p \in PriceSamples, q \in 1..MaxQty, r \in PriceSamples, n \in 1..MaxQty}

InitTotals ==
    /\ cartItems \in SampleCarts
    /\ auth = KnownUser
    /\ location = At("/panier", Undef)
    /\ form = NoFields
    /\ state = Idle
    /\ pending = <<>>
    /\ queue = <<>>
    /\ provider = Settled(auth)
    /\ dashboard = NoData
    /\ shop = Unmounted
    /\ history = <<>>
    /\ last = [op |-> "init", ids |-> <<>>, removed |-> 0]

\* how many times the totals were derived since the cart last changed
callsSoFar == IF last.op = "computeTotals" THEN last.calls ELSE 0

\* Cart renders: const { lines, subtotal, tva, shipping, total } = computeTotals(working)
ComputeTotals ==
    /\ shown(location.pathname, auth) = "Cart"
    /\ callsSoFar < MaxCalls
    /\ cartItems' = itemsAfterComputeTotals(cartItems)
    /\ last' = [op |-> "computeTotals", ids |-> <<>>, removed |-> 0,
                calls |-> callsSoFar + 1, totals |-> computeTotals(cartItems)]
    /\ UNCHANGED appVars

NextTotals ==
    \/ ComputeTotals
    \/ \E i \in 1..2 : CartIncrement(i)
    \/ \E i \in 1..2 : CartDecrement(i)

SpecTotals == InitTotals /\ [][NextTotals]_vars

-----------------------------------------------------------------------------
(* PaymentForm mounted with props of every kind: a session with or without a
   user id, no navigation state, no line, a total of 0 or NaN, or a proper
   order *)

PropSamples ==
    {Undef}
    \cup {[items |-> items, total |-> total] :
             items \in {<<>>, <<SampleLine(1, Num(25000), 1)>>},
             total \in {Num(0), NaN, Num(36900)}}

InitForm ==
    /\ cartItems \in {<<>>, <<SampleLine(1, Num(25000), 1)>>}
    /\ auth \in Users
    /\ location \in {At("/paywall", props) : props \in PropSamples}
    /\ form = NoFields
    /\ state = Idle
    /\ pending = <<>>
    /\ queue = <<>>
    /\ provider = Settled(auth)
    /\ dashboard = NoData
    /\ shop = Unmounted
    /\ history = <<>>
    /\ last = [op |-> "init", ids |-> <<>>, removed |-> 0]

NextForm ==
    \/ \E fill \in BOOLEAN : HandleChange(fill)
    \/ HandleSubmit
    \/ \E i \in 1..MaxPending, res \in Responses : ReceiveResponse(i, res)

SpecForm == InitForm /\ [][NextForm]_vars

-----------------------------------------------------------------------------
(* Handlers called in a row before React renders again: each call of
   setCartItems((prev) => ...) queues its updater, and the next render runs
   the queued updaters in the order of the calls, each on the result of the
   one before *)

\* most updaters queued between two renders
MaxQueue == 2

\* the keys the +/- buttons pass, and a falsy one
BatchKeys == {keyOf(ShopProduct(p)) : p \in ShopCatalog} \cup {Num(0)}

\* the updater a queued call carries, applied to the cart it is given
applyUpdater(prev, u) ==
    IF u.op = "changeQty" THEN changeQtyFn(prev, u.id, u.delta)
    ELSE handleAddFn(prev, u.product)

\* every updater computed from the cart of the last render: the last call wins
processUpdateQueueStale(base, q) ==
    IF q = <<>> THEN base ELSE applyUpdater(base, q[Len(q)])

RECURSIVE processUpdateQueue(_, _)
processUpdateQueue(base, q) ==
    IF q = <<>> THEN base
    ELSE processUpdateQueue(applyUpdater(base, Head(q)), Tail(q))

\* changeQty(id, delta) called: returns at once on a falsy id or delta,
\* otherwise queues its updater
ChangeQtyCall(id, delta) ==
    /\ Len(queue) < MaxQueue
    /\ queue' = IF Falsy(id) \/ delta = 0 THEN queue
                ELSE Append(queue, [op |-> "changeQty", id |-> id, delta |-> delta])
    /\ QtyBounded(processUpdateQueue(cartItems, queue'))
    /\ Note("changeQtyCall")
    /\ UNCHANGED <<cartItems, auth, location, form, state, pending, provider, dashboard, shop, history>>

\* handleAdd(product) called: queues its updater
HandleAddCall(product) ==
    /\ Len(queue) < MaxQueue
    /\ queue' = Append(queue, [op |-> "handleAdd", product |-> product])
    /\ QtyBounded(processUpdateQueue(cartItems, queue'))
    /\ Note("handleAddCall")
    /\ UNCHANGED <<cartItems, auth, location, form, state, pending, provider, dashboard, shop, history>>

\* React renders App again: the queued updaters give the next cartItems
Render ==
    /\ queue # <<>>
    /\ cartItems' = processUpdateQueue(cartItems, queue)
    /\ queue' = <<>>
    /\ last' = [op |-> "render", ids |-> <<>>,
                removed |-> Max(0, Len(cartItems) - Len(cartItems')),
                applied |-> Len(queue)]
    /\ UNCHANGED <<auth, location, form, state, pending, provider, dashboard, shop, history>>

NextBatch ==
    \/ \E k \in BatchKeys, d \in {0 - 1, 0, 1} : ChangeQtyCall(k, d)
    \/ \E p \in ShopCatalog : HandleAddCall(ShopProduct(p))
    \/ Render

SpecBatch == Init /\ [][NextBatch]_vars

-----------------------------------------------------------------------------
(* Properties of the cart handlers *)

RECURSIVE StoredQtySum(_)
StoredQtySum(items) ==
    IF items = <<>> THEN 0 ELSE Head(items).qty + StoredQtySum(Tail(items))

\* the sum over the lines of stored unit price x stored quantity
RECURSIVE StoredSubtotal(_)
StoredSubtotal(items) ==
    IF items = <<>> THEN Num(0)
    ELSE JsAdd(JsTimes(ToNumber(Head(items).price), Head(items).qty),
               StoredSubtotal(Tail(items)))

\* C1: after any sequence of changeQty and setQuantity calls every line still
\* in the cart has a stored quantity of at least 1 (a line driven to 0 or
\* below is gone, not kept with quantity 0).
C1_QuantityAtLeastOne ==
    \A i \in DOMAIN cartItems : cartItems[i].qty >= 1

\* C2: round trip: from the empty cart, add(p, n) followed by
\* changeQty(key of p, -n) leaves the cart empty.
C2_AddThenChangeQtyIsEmpty ==
    [][\A p \in Products, n \in 1..MaxQty :
         (/\ last.op = "addToCart"
          /\ cartItems = addToCartFn(<<>>, p, n)
          /\ ChangeQty(keyOf(p), 0 - n))
         => cartItems' = <<>>]_vars

\* C3: in every cart reached through the handlers, the subtotal computeTotals
\* returns is the sum over the lines of stored unit price x stored quantity.
C3_SubtotalIsStoredSum ==
    computeTotals(cartItems).subtotal = StoredSubtotal(cartItems)

\* the order API answered with an HTTP success and a body whose ok is true
Confirmed(res) == res.fetched /\ res.httpOk /\ res.body = "ok_true"

\* C4: a failed checkout does not clear the cart: when the order request ends
\* in a rejected fetch, a non-success status, or a body that is not ok, the
\* cart stays as it was and the success path (onPaid, clearCart, the move to
\* /home) is not taken; a response that changes the cart is a confirmed one.
C4_FailedCheckoutKeepsCart ==
    [][\A i \in 1..MaxPending, res \in Responses :
         ReceiveResponse(i, res) =>
            /\ ~Confirmed(res) =>
                  /\ cartItems' = cartItems
                  /\ location' = location
                  /\ last'.op # "orderPaid"
            /\ (cartItems' # cartItems \/ last'.op = "orderPaid") => Confirmed(res)]_vars

C4_Witness ==
    /\ last.op = "orderFailed"
    /\ cartItems # <<>>
    /\ location.pathname = "/paywall"
    /\ state.error # ""

\* C5: after a confirmed successful checkout the cart is empty and the derived
\* item count is 0, whatever the cart held before.
C5_PaidCheckoutEmptiesCart ==
    [][\A i \in 1..MaxPending, res \in Responses :
         (ReceiveResponse(i, res) /\ Confirmed(res)) =>
            /\ cartItems' = <<>>
            /\ cartCount' = 0]_vars

C5_Witness ==
    /\ last.op = "orderPaid"
    /\ last.removed >= 2
    /\ cartItems = <<>>
    /\ cartCount = 0

\* C6: keys are unique: no two lines of the cart have the same key
\* (id if present, else name).
C6_KeysUnique ==
    \A i, j \in DOMAIN cartItems :
        i # j => ~StrictEq(keyOf(cartItems[i]), keyOf(cartItems[j]))

C6_Witness ==
    /\ last.op = "handleAdd"
    /\ Len(cartItems) >= 2
    /\ \E i \in DOMAIN cartItems : cartItems[i].qty >= 2

\* C7: the unit price is never negative and never NaN: every stored price and
\* every price computeTotals uses is a number >= 0, so that subtotal and total
\* are numbers.
C7_PriceIsNonNegativeNumber ==
    LET t == computeTotals(cartItems)
    IN /\ \A i \in DOMAIN cartItems :
            /\ cartItems[i].price.t = "num" /\ cartItems[i].price.n >= 0
            /\ t.lines[i].price.t = "num" /\ t.lines[i].price.n >= 0
       /\ t.subtotal.t = "num"
       /\ t.total.t = "num"

\* C8: the item count is the sum of the quantities: cartCount of App and
\* totalCount of the Cart page both equal the sum of the stored quantities,
\* and each other.
C8_CountIsStoredQtySum ==
    /\ cartCount = StoredQtySum(cartItems)
    /\ totalCount = StoredQtySum(cartItems)
    /\ cartCount = totalCount

\* the lines of prev whose key, as a string, is none of ids as strings
Unlisted(prev, ids) ==
    {i \in DOMAIN prev :
        \A j \in DOMAIN ids : JsString(keyOf(prev[i])) # JsString(ids[j])}

\* C9: removeMany(keys) yields in one transition the cart made of exactly the
\* lines whose key is not listed, in their original order: no state with only
\* some of the listed keys removed comes in between.
C9_RemoveManyIsOneTransition ==
    [][last'.op = "removeMany" =>
         LET kept == Unlisted(cartItems, last'.ids)
         IN /\ Len(cartItems') = Cardinality(kept)
            /\ \A j \in DOMAIN cartItems' :
                 \E i \in kept :
                    /\ Cardinality({k \in kept : k <= i}) = j
                    /\ cartItems'[j] = cartItems[i]]_vars

C9_Witness ==
    /\ last.op = "removeMany"
    /\ Len(last.ids) = 2
    /\ last.removed = 2
    /\ Len(cartItems) = 1

\* C10: removeMany normalises key types: a line is removed if and only if the
\* string form of its key is the string form of a listed key (the id 1 goes
\* with "1", the id "2" with 2), and every other line stays as it was.
C10_RemovedIffStringFormListed ==
    [][last'.op = "removeMany" =>
         \A i \in DOMAIN cartItems :
            LET listed == \E j \in DOMAIN last'.ids :
                             JsString(last'.ids[j]) = JsString(keyOf(cartItems[i]))
                stays == \E k \in DOMAIN cartItems' : cartItems'[k] = cartItems[i]
                gone == keyOf(cartItems[i]) \notin Keys(cartItems')
            IN /\ listed <=> gone
               /\ ~listed <=> stays]_vars

C10_Witness ==
    /\ last.op = "removeMany"
    /\ last.ids = <<Str("1"), Num(2)>>
    /\ last.removed = 2
    /\ Keys(cartItems) = {Str("Widget")}

\* handleAdd called k times in a row
RECURSIVE handleAddTimes(_, _, _)
handleAddTimes(prev, product, k) ==
    IF k = 0 THEN prev ELSE handleAddTimes(handleAddFn(prev, product), product, k - 1)

\* C11: key fallback: a product with no id is keyed by its name; adding it k
\* times (k >= 1) to a cart that does not contain it yields the cart as it
\* was followed by exactly one line for that name, with quantity k.
C11_IdlessProductIsOneLine ==
    \A p \in Products :
        (p.id = Undef /\ p.name \notin Keys(cartItems)) =>
            \A k \in 1..(MaxQty + 1) :
                LET c == handleAddTimes(cartItems, p, k)
                IN /\ Len(c) = Len(cartItems) + 1
                   /\ SubSeq(c, 1, Len(cartItems)) = cartItems
                   /\ c[Len(c)].id = Undef
                   /\ keyOf(c[Len(c)]) = p.name
                   /\ c[Len(c)].qty = k

C11_Witness ==
    /\ last.op = "handleAdd"
    /\ Cardinality({i \in DOMAIN cartItems : cartItems[i].name = Widget.name}) = 1
    /\ \E i \in DOMAIN cartItems :
          /\ cartItems[i].id = Undef
          /\ keyOf(cartItems[i]) = Str("Widget")
          /\ cartItems[i].qty = MaxQty

\* C12: add(product, qty) for a key that is not in the cart: with qty <= 0 the
\* cart (items, order, quantities) is unchanged; with qty > 0 exactly one new
\* line, with quantity qty, is appended after the lines already there.
C12_AddOfAbsentKey ==
    [][\A p \in Products, q \in (0 - MaxQty)..MaxQty :
         (/\ last'.op = "addToCart"
          /\ keyOf(p) \notin Keys(cartItems)
          /\ AddToCart(p, q)) =>
            IF q <= 0
            THEN cartItems' = cartItems
            ELSE /\ Len(cartItems') = Len(cartItems) + 1
                 /\ SubSeq(cartItems', 1, Len(cartItems)) = cartItems
                 /\ keyOf(cartItems'[Len(cartItems')]) = keyOf(p)
                 /\ cartItems'[Len(cartItems')].qty = q]_vars

\* addToCart has just run on the empty cart and has inserted nothing
C12_Witness ==
    /\ last.op = "addToCart"
    /\ last.removed = 0
    /\ cartItems = <<>>

\* C17: no-op cases: changeQty with a falsy key or a zero delta, and changeQty,
\* setQty or removeItem with a key that no line of the cart has, leave every
\* item, its quantity and the order of the items exactly as before.
C17_NoOpsKeepCart ==
    [][/\ last'.op = "changeQty" =>
            \A k \in KeyArgs, d \in (0 - MaxQty)..MaxQty :
                (/\ Falsy(k) \/ d = 0 \/ k \notin Keys(cartItems)
                 /\ ChangeQty(k, d)) => cartItems' = cartItems
       /\ last'.op = "setQty" =>
            \A k \in KeyArgs, q \in (0 - 1)..MaxQty :
                (/\ k \notin Keys(cartItems)
                 /\ SetQty(k, q)) => cartItems' = cartItems
       /\ last'.op = "removeItem" =>
            \A k \in KeyArgs :
                (/\ k \notin Keys(cartItems)
                 /\ RemoveItem(k)) => cartItems' = cartItems]_vars

\* removeItem has just run on a cart of two lines and removed none
C17_Witness ==
    /\ last.op = "removeItem"
    /\ last.removed = 0
    /\ Len(cartItems) = 2

-----------------------------------------------------------------------------
(* Properties of the derived totals *)

\* C13: shipping threshold: computeTotals yields the fee 0 if and only if the
\* subtotal is strictly greater than 100; a subtotal of exactly 100.00, any
\* smaller one and that of the empty cart yield 6.90, and 100.01 yields 0.
C13_FreeShippingStrictlyAbove100 ==
    last.op = "computeTotals" =>
        LET t == last.totals
        IN /\ t.shipping = Num(0) <=> (t.subtotal.t = "num" /\ t.subtotal.n > 100000)
           /\ t.shipping # Num(0) => t.shipping = Num(6900)
           /\ t.subtotal = Num(100000) => t.shipping = Num(6900)
           /\ t.subtotal = Num(100010) => t.shipping = Num(0)
           /\ cartItems = <<>> => (t.subtotal = Num(0) /\ t.shipping = Num(6900))

C13_Witness ==
    /\ last.op = "computeTotals"
    /\ last.totals.subtotal = Num(100000)
    /\ last.totals.shipping = Num(6900)
    /\ Len(cartItems) = 2

\* C14: for every cart, the tax computeTotals returns is 20 % of the subtotal
\* and the total is subtotal + tax + shipping fee, in exact fixed-point
\* arithmetic; a subtotal of 50.00 gives the tax 10.00 and the total 66.90.
C14_TaxAndTotal ==
    last.op = "computeTotals" =>
        LET t == last.totals
        IN /\ t.subtotal.t = "num"
           /\ t.tva.t = "num"
           /\ t.tva.n * 100 = t.subtotal.n * 20
           /\ t.total = Num(t.subtotal.n + t.tva.n + t.shipping.n)
           /\ t.subtotal = Num(50000) => (t.tva = Num(10000) /\ t.total = Num(66900))

C14_Witness ==
    /\ last.op = "computeTotals"
    /\ last.totals.subtotal = Num(50000)
    /\ last.totals.tva = Num(10000)
    /\ last.totals.total = Num(66900)

-----------------------------------------------------------------------------
(* Properties of calls made in a row *)

\* C16: ordering: when two cart mutations are issued one right after the other
\* before any render (changeQty twice, handleAdd twice, or one of each), the
\* resulting cart is the second applied to the result of the first applied to
\* the prior cart: no update is lost, none is computed from a stale cart.
C16_UpdatesApplyInOrder ==
    [][(last'.op = "render" /\ Len(queue) = 2) =>
         LET afterFirst == applyUpdater(cartItems, queue[1])
         IN /\ cartItems' = applyUpdater(afterFirst, queue[2])
            /\ queue' = <<>>]_vars

\* two calls were applied by one render and both count: one line, quantity 2
C16_Witness ==
    /\ last.op = "render"
    /\ last.applied = 2
    /\ Len(cartItems) = 1
    /\ cartItems[1].qty = 2

-----------------------------------------------------------------------------
(* Properties of the checkout *)

\* subtotal + 20 % + delivery over lines of numeric price, in thousandths
RECURSIVE LinesAmount(_)
LinesAmount(lines) ==
    IF lines = <<>> THEN 0
    ELSE Head(lines).price.n * Head(lines).qty + LinesAmount(Tail(lines))

TotalDue(lines) ==
    LET sub == LinesAmount(lines)
    IN sub + (sub * 20) \div 100 + (IF sub > 100000 THEN 0 ELSE 6900)

\* lines carry, one for one and in order, the id, quantity and price of items
SameLines(lines, items) ==
    /\ Len(lines) = Len(items)
    /\ \A i \in DOMAIN items :
          /\ lines[i].id = items[i].id
          /\ lines[i].qty = items[i].qty
          /\ lines[i].price = items[i].price

\* C18: the order request is a faithful snapshot: what "Commander" hands to
\* the payment page has one line per item of the cart at the click, with that
\* item's id, quantity and unit price, and the total subtotal + tax + shipping
\* of those lines; it stays as it is while the payment page is shown; and the
\* request a submission sends carries exactly those lines and that total.
C18_OrderRequestIsSnapshot ==
    [][/\ (last'.op = "placeOrder" /\ location'.pathname = "/paywall") =>
            /\ SameLines(location'.state.items, cartItems)
            /\ location'.state.total = Num(TotalDue(cartItems))
       /\ (location.pathname = "/paywall" /\ location'.pathname = "/paywall") =>
            location'.state = location.state
       /\ (last'.op = "submit" /\ Len(pending') > Len(pending)) =>
            LET sent == pending'[Len(pending')].payload
            IN /\ SameLines(sent.lines, location.state.items)
               /\ \A i \in DOMAIN sent.lines :
                     DOMAIN sent.lines[i] = {"id", "qty", "price"}
               /\ sent.total = location.state.total
               /\ sent.total = Num(TotalDue(sent.lines))]_vars

\* a request for a cart of two lines, one of them with quantity 2, was sent
C18_Witness ==
    /\ last.op = "submit"
    /\ Len(pending) = 1
    /\ pending[1].alive
    /\ Len(pending[1].payload.lines) = 2
    /\ \E i \in 1..2 : pending[1].payload.lines[i].qty = 2
    /\ SameLines(pending[1].payload.lines, cartItems)

C22_NoRequestWhenGuardFails ==
    [][(/\ last'.op = "submit"
        /\ \/ form < 4
           \/ Falsy(userId)
           \/ Len(payItems) = 0
           \/ Falsy(payTotal)) =>
            /\ pending' = pending
            /\ state'.loading = FALSE
            /\ state'.error # ""
            /\ cartItems' = cartItems
            /\ location' = location]_vars

\* every field typed, a user id, lines, but a total that is falsy
C22_Witness ==
    /\ last.op = "submit"
    /\ form = 4
    /\ ~Falsy(userId)
    /\ Len(payItems) = 1
    /\ Falsy(payTotal)
    /\ pending = <<>>
    /\ state = [loading |-> FALSE, error |-> "Panier vide ou total invalide."]

-----------------------------------------------------------------------------
(* Properties of sessions *)

\* C20: the cart is created empty at session start: whenever a user becomes
\* authenticated (login or registration, also after another user logged out
\* in the same page session) the cart that user finds is empty.
C20_CartEmptyAtSessionStart ==
    [][last'.op = "login" => (cartItems = <<>> /\ cartItems' = <<>>)]_vars

-----------------------------------------------------------------------------
(* Properties of the routes *)

ProtectedPaths ==
    {"/home", "/produits", "/panier", "/paywall", "/catalogue", "/performances"}

\* C21: route guard: in no reachable state is a protected route (/home,
\* /produits, /panier, /paywall, /catalogue, /performances) shown while
\* auth.token is absent; every such access, also after logout, ends at "/";
\* and a signed-in user is never shown the auth page at "/" but /home.
C21_RouteGuard ==
    /\ shown(location.pathname, auth) # ""
    /\ Falsy(auth.token) =>
          /\ location.pathname = "/"
          /\ shown(location.pathname, auth) = "Auth"
          /\ \A path \in ProtectedPaths :
                /\ shown(path, auth) = ""
                /\ settle(path, auth) = "/"
    /\ ~Falsy(auth.token) =>
          /\ location.pathname \in ProtectedPaths
          /\ shown("/", auth) = ""
          /\ settle("/", auth) = "/home"

\* signed out with a cart left behind, a protected path was asked for
C21_Witness ==
    /\ last.op = "visit"
    /\ Falsy(auth.token)
    /\ cartItems # <<>>
    /\ location.pathname = "/"

\* C23: auth persistence: once the mounting effects have settled, localStorage
\* "auth" holds the JSON of the auth state if and only if auth is non-null; a
\* valid session stored before a page load is restored into auth and is
\* still stored afterwards; and logout removes it.
C23_AuthPersistence ==
    provider.pc = "settled" =>
        /\ auth # NoAuth =>
              (provider.storage.kind = "json" /\ provider.storage.value = auth)
        /\ auth = NoAuth => provider.storage.kind = "absent"
        /\ (/\ last.op = "restored"
            /\ last.stored.kind = "json"
            /\ last.stored.value # NoAuth) =>
              (auth = last.stored.value /\ provider.storage = last.stored)
        /\ last.op = "logout" =>
              (auth = NoAuth /\ provider.storage.kind = "absent")

\* a stored session was restored by a page load and is stored again
C23_Witness ==
    /\ last.op = "restored"
    /\ provider.pc = "settled"
    /\ last.stored.kind = "json"
    /\ auth = KnownUser
    /\ last.stored.value = KnownUser
    /\ provider.storage = last.stored
    /\ location.pathname = "/home"

-----------------------------------------------------------------------------
(* Properties of the roles *)

ShopPages == {"Shop", "Cart", "PayWall"}
ProPages == {"Dashboard", "Catalog", "Performances"}

\* the paths of the routes App declares for a session
RouteSet(a) ==
    IF isPro(a) THEN {"/", "/home", "/catalogue", "/performances"}
    ELSE {"/", "/home", "/produits", "/panier", "/paywall"}

\* what the routes give a signed-in session, whatever path is asked for
RolePages(a) ==
    /\ isPro(a) => \A path \in RoutePaths : routeElement(path, a).page \notin ShopPages
    /\ ~isPro(a) => \A path \in RoutePaths : routeElement(path, a).page \notin ProPages
    /\ \A path \in RoutePaths \ RouteSet(a) :
          /\ routeElement(path, a) = Redirect("/")
          /\ settle(path, a) = "/home"

\* C24: role-conditional routing: while the signed-in user's raison_soc starts
\* with "profession" (whatever the case) Shop, Cart and PayWall are never
\* shown and the cart does not change; while it does not, Dashboard, Catalog
\* and Performances are never shown; a path outside the user's routes ends at
\* "/" and from there at /home.
C24_RoleRouting ==
    [][/\ ~Falsy(auth'.token) =>
             /\ RolePages(auth')
             /\ isPro(auth') => shown(location'.pathname, auth') \in ProPages
             /\ ~isPro(auth') => shown(location'.pathname, auth') \in {"Home"} \cup ShopPages
       /\ (~Falsy(auth.token) /\ isPro(auth) /\ auth' = auth) =>
             cartItems' = cartItems]_vars

-----------------------------------------------------------------------------
(* Properties of the Dashboard *)

\* the month's order totals, each normalised once
RECURSIVE MonthAmounts(_)
MonthAmounts(ordersRaw) ==
    IF ordersRaw = <<>> THEN <<>>
    ELSE (IF Head(ordersRaw).date = "month"
          THEN <<normalizeMoney(Head(ordersRaw).total)>> ELSE <<>>)
         \o MonthAmounts(Tail(ordersRaw))

RECURSIVE FracSum(_)
FracSum(amounts) ==
    IF amounts = <<>> THEN Zero ELSE FracAdd(Head(amounts), FracSum(Tail(amounts)))

\* C25: Dashboard money normalization: every amount is converted to euros
\* exactly once before display: the displayed revenue of the month is the sum,
\* and the displayed average cart the mean, of the month's order totals each
\* normalised by normalizeMoney (an integer is cents, anything else euros).
C25_MoneyNormalisedOnce ==
    last.op = "renderDashboard" =>
        LET amounts == MonthAmounts(dashboard.data)
            sum == FracSum(amounts)
        IN /\ last.revenue = toLocaleCents(sum)
           /\ last.avgCart =
                 toLocaleCents(IF amounts = <<>> THEN Zero ELSE FracDiv(sum, Len(amounts)))

-----------------------------------------------------------------------------
(* Properties of the Shop *)

AliveFetches == {i \in DOMAIN shop.fetches : shop.fetches[i].alive}

\* C26: Shop fetch race: the answer of a fetch started for an earlier query,
\* or before the unmount, never updates items, loading or error once its
\* effect was cleaned up; whatever the order of the answers, the list shown
\* is the answer to the fetch of the latest query filtered by that query, and
\* nothing is updated after the unmount.
C26_StaleFetchIgnored ==
    /\ [](/\ \A i \in AliveFetches : shop.mounted /\ shop.fetches[i].q = shop.q
          /\ Cardinality(AliveFetches) <= 1
          /\ (shop.mounted /\ shop.loading) => AliveFetches # {}
          /\ (shop.mounted /\ ~shop.loading /\ shop.error = "") =>
                shop.items = visibleFor(shop.items, shop.q))
    /\ [][last'.op \in {"shopLoaded", "shopFailed"} =>
            IF last'.fetch.alive
            THEN /\ last'.fetch.q = shop'.q
                 /\ shop'.mounted /\ ~shop'.loading
                 /\ last'.op = "shopLoaded" =>
                       (shop'.items = visibleFor(last'.rows, shop'.q) /\ shop'.error = "")
            ELSE /\ shop'.items = shop.items
                 /\ shop'.loading = shop.loading
                 /\ shop'.error = shop.error
                 /\ shop'.mounted = shop.mounted]_vars

\* the answer for an earlier query arrives while the fetch of the latest
\* query is still in flight, then the list of the latest query is shown
C26_Witness ==
    /\ last.op = "shopLoaded"
    /\ last.fetch.alive
    /\ last.fetch.q = <<"c", "l">>
    /\ shop.items = <<RowClavier>>
    /\ Len(shop.fetches) = 1
    /\ ~shop.fetches[1].alive
    /\ shop.fetches[1].q = <<"i">>

-----------------------------------------------------------------------------
(* Properties relating the handlers *)

\* C27: remove(k) and removeMany([k]) are equivalent: for every cart and
\* every key k, a number or a text, the two calls give the same cart.
C27_RemoveIsRemoveManyOfOne ==
    \A k \in KeyArgs : removeItemFn(cartItems, k) = removeManyFn(cartItems, <<k>>)

-----------------------------------------------------------------------------
(* Properties of the payment *)

AliveRequests == {i \in DOMAIN pending : pending[i].alive}

\* C28: at most one order per payment: while an order request of PaymentForm
\* is pending (loading = true) no second one is sent, so a visit of the paywall
\* that ends in success made one order and called onPaid once.
C28_OneOrderPerPayment ==
    /\ [](/\ Cardinality(AliveRequests) <= 1
          /\ AliveRequests # {} =>
                (shown(location.pathname, auth) = "PayWall" /\ state.loading)
          /\ (shown(location.pathname, auth) = "PayWall" /\ state.loading) =>
                AliveRequests # {})
    /\ [][/\ (last'.op = "submit" /\ Len(pending') > Len(pending)) =>
                (~state.loading /\ AliveRequests = {})
          /\ (last'.op = "orderPaid" /\ AliveRequests # {}) =>
                /\ shown(location'.pathname, auth') # "PayWall"
                /\ \A i \in DOMAIN pending' : ~pending'[i].alive]_vars

\* the request of an abandoned visit is still in flight when the form of the
\* next visit has sent its own and waits for the answer
C28_Witness ==
    /\ last.op = "submit"
    /\ Len(pending) = MaxInFlight
    /\ ~pending[1].alive
    /\ pending[2].alive
    /\ state.loading

\* every line of items is a line of the order, with its quantity
Ordered(items, lines) ==
    \A i \in DOMAIN items :
        \E j \in DOMAIN lines :
            lines[j].id = items[i].id /\ lines[j].qty = items[i].qty

\* C29: no stale checkout: whenever an order request is sent from the paywall
\* its lines and total are those of the cart App holds at that moment, also
\* when the cart changed after "Commander" and /paywall was reached again
\* through the history; and a successful payment never clears items that
\* were not part of the order.
C29_NoStaleCheckout ==
    [][/\ (last'.op = "submit" /\ Len(pending') > Len(pending)) =>
            LET sent == pending'[Len(pending')].payload
            IN /\ SameLines(sent.lines, cartItems)
               /\ sent.total = Num(TotalDue(cartItems))
       /\ last'.op = "orderPaid" =>
            \E i \in DOMAIN pending :
                /\ Len(pending') = Len(pending) - 1
                /\ Ordered(cartItems, pending[i].payload.lines)]_vars

-----------------------------------------------------------------------------
(* Properties of the Cart page *)

\* C30: through the controls of the Cart page alone (decrement enabled only
\* while the displayed quantity is > 1, increment, delete), with a render
\* between the user's events, no line ever has a stored quantity below 1: a
\* line leaves the cart only through delete, removeMany or clear.
C30_ControlsKeepQuantity ==
    /\ [](\A i \in DOMAIN cartItems : cartItems[i].qty >= 1)
    /\ [][Len(cartItems') < Len(cartItems) =>
            last'.op \in {"removeItem", "removeMany", "clearCart", "orderPaid"}]_vars

\* the only line was brought back from 2 to 1: its - button is now disabled
C30_Witness ==
    /\ last.op = "changeQty"
    /\ Len(cartItems) = 1
    /\ cartItems[1].qty = 1
    /\ decrementDisabled(cartItems[1])
    /\ shown(location.pathname, auth) = "Cart"

====
